---------------------------- MODULE Spec2Model ----------------------------
(***************************************************************************)
(* A model of pyroute2's netlink transport: Marshal.parse (the reassembler  *)
(* and decoder) and NetlinkSocket (bind / close over the process-wide port  *)
(* pool), src/pyroute2/netlink/nlsocket.py.                                 *)
(***************************************************************************)
EXTENDS Integers, Sequences, FiniteSets, TLC

VARIABLES
    msg_map,          \* Marshal.msg_map: message type -> decoder class
    defragmentation,  \* Marshal.defragmentation: identity -> saved buffer
    feed,             \* identity -> datagrams still to be handed to parse
    returned,         \* identity -> outcome of every parse call made so far
    whole,            \* identity -> the byte stream its feed was cut from
    pool,             \* sockets: the ports the process-wide AddrPool has allocated
    ep,               \* the NetlinkSocket objects of the process
    foreign,          \* addresses bound by sockets of other processes
    last,             \* what the last bind or close call did (history)
    pcall,            \* what the last call on the policy map did (history)
    thr               \* Marshal.lock and the threads inside NetlinkSocket.get

vars == <<msg_map, defragmentation, feed, returned, whole, pool, ep, foreign, last,
          pcall, thr>>

(***************************************************************************)
(* Bounds of the model.                                                    *)
(***************************************************************************)
MaxMsgs == 2          \* messages in one byte stream
MaxChunks == 4        \* datagrams a short stream is cut into
ShortStream == 16     \* streams up to this length are cut into MaxChunks
NSockets == 2         \* NetlinkSocket objects of the process
\* The pool holds ports 0..0x3ff and bind scans range(1024); the model keeps
\* the two equal and scales them down to NPorts.
NPorts == 3
MaxKeys == 2          \* message types in one unregister / query request
NThreads == 2         \* threads calling get() on one NetlinkSocket

(***************************************************************************)
(* Program constants.                                                      *)
(***************************************************************************)
NLMSG_ERROR == 2
PrefixLen == 6        \* struct.calcsize('IH')
HeaderLen == 16       \* length, type, flags, sequence number, pid
CodeOffset == 16
CodeLen == 4          \* struct.calcsize('i')
EncOffset == 20
EncTypeOffset == 24
EncTypeLen == 2       \* struct.calcsize('H')

EADDRINUSE == 98
EBADF == 9
EINVAL == 22
PidBits == 22
MyPid == 4242         \* os.getpid() & 0x3fffff
OtherPid == 777       \* a pid a caller passes explicitly

None == "None"
NoneInt == 0 - 1      \* None, where the value is otherwise an integer

Min(a, b) == IF a < b THEN a ELSE b
Max(a, b) == IF a < b THEN b ELSE a

(***************************************************************************)
(* struct.pack / struct.unpack, native little-endian layout.               *)
(***************************************************************************)
PackH(n) == <<n % 256, (n \div 256) % 256>>

PackI(n) ==
    <<n % 256, (n \div 256) % 256, (n \div 65536) % 256, (n \div 16777216) % 256>>

\* two's complement of a signed 32-bit value
Packi(n) ==
    IF n >= 0 THEN PackI(n)
    ELSE LET m == PackI(-n - 1) IN [j \in 1..4 |-> 255 - m[j]]

UnpackH(b) == b[1] + 256 * b[2]

\* an unsigned value from 2^30 on exceeds every buffer of the model and is
\* kept as 2^30 (the model's integers are 32 bits wide, Python's are not)
UnpackI(b) ==
    IF b[4] >= 64 THEN 16777216 * 64
    ELSE b[1] + 256 * b[2] + 65536 * b[3] + 16777216 * b[4]

Unpacki(b) ==
    IF b[4] < 128 THEN b[1] + 256 * b[2] + 65536 * b[3] + 16777216 * b[4]
    ELSE b[1] + 256 * b[2] + 65536 * b[3] + 16777216 * (b[4] - 256)

Abs(n) == IF n < 0 THEN -n ELSE n

\* io.BytesIO.read(n) at position pos
Read(bytes, pos, n) == SubSeq(bytes, pos + 1, Min(pos + n, Len(bytes)))

\* io.BytesIO.read() at position pos
ReadAll(bytes, pos) == SubSeq(bytes, pos + 1, Len(bytes))

\* bytes[a:b]
Slice(bytes, a, b) == SubSeq(bytes, a + 1, Min(b, Len(bytes)))


(***************************************************************************)
(* Messages and decoders.  The decoder classes (pyroute2.netlink.nlmsg and  *)
(* its subclasses) are injected contracts: a decoder reads the 16-byte      *)
(* header, then the fixed fields of its payload, and fails when the bytes   *)
(* are not there.                                                           *)
(***************************************************************************)
NoError == [kind |-> "None", code |-> 0]

NetlinkError(code) == [kind |-> "NetlinkError", code |-> code]

NetlinkHeaderDecodeError == [kind |-> "NetlinkHeaderDecodeError", code |-> 0]

NetlinkDecodeError == [kind |-> "NetlinkDecodeError", code |-> 0]

NoErrmsg == [cls |-> "none", type |-> 0, length |-> 0]

\* nlmsg(): a message built from no buffer
EmptyMsg ==
    [cls |-> "nlmsg", length |-> 0, type |-> 0, flags |-> 0,
     sequence_number |-> 0, pid |-> 0, raw |-> <<>>, error |-> NoError,
     errmsg |-> NoErrmsg, event |-> None]

\* bytes of the fixed payload fields of a decoder class
PayloadSize(cls) ==
    CASE cls = "ifinfmsg" -> 16
      [] cls = "ifaddrmsg" -> 8
      [] OTHER -> 0

\* msg_class(data).decode() at offset: the exception raised (or None), the
\* decoded message, msg.raw and the position the buffer is left at
Decode(cls, bytes, offset) ==
    IF Len(bytes) - offset < HeaderLen
    THEN [exc |-> "NetlinkHeaderDecodeError", msg |-> EmptyMsg, raw |-> <<>>,
          pos |-> Max(offset, Len(bytes))]
    ELSE LET length == UnpackI(Slice(bytes, offset, offset + 4))
             raw == Slice(bytes, offset, offset + length)
             msg == [cls |-> cls,
                     length |-> length,
                     type |-> UnpackH(Slice(bytes, offset + 4, offset + 6)),
                     flags |-> UnpackH(Slice(bytes, offset + 6, offset + 8)),
                     sequence_number |-> UnpackI(Slice(bytes, offset + 8, offset + 12)),
                     pid |-> UnpackI(Slice(bytes, offset + 12, offset + 16)),
                     raw |-> raw,
                     error |-> NoError, errmsg |-> NoErrmsg, event |-> None]
         IN  [exc |-> IF Max(Len(raw) - HeaderLen, 0) < PayloadSize(cls)
                      THEN "NetlinkDecodeError" ELSE None,
              msg |-> msg, raw |-> raw, pos |-> offset + length]

\* pyroute2.netlink.mtypes
mtypes(t) ==
    CASE t = 1 -> "NLMSG_NOOP"
      [] t = 2 -> "NLMSG_ERROR"
      [] t = 3 -> "NLMSG_DONE"
      [] t = 4 -> "NLMSG_OVERRUN"
      [] OTHER -> "none"

\* MapGet with a bug: the policy is ignored
MapGetGeneric(map, t) == "nlmsg"

\* self.msg_map.get(msg_type, nlmsg)
MapGet(map, t) == IF t \in DOMAIN map THEN map[t] ELSE "nlmsg"

(***************************************************************************)
(* Marshal.parse.  The state of one call: the buffer being scanned (bytes,  *)
(* its .length attribute, its position), offset, result, the buffer saved   *)
(* for defragmentation and how the call is going.                           *)
(***************************************************************************)
NoSave == [bytes |-> <<>>, length |-> 0, saved |-> FALSE]

\* lines 67-73: the kernel error of an error frame
\* ("struct.error" when the code cannot be read)
FrameError(st, msg_type) ==
    IF msg_type /= NLMSG_ERROR THEN [exc |-> None, error |-> NoError]
    ELSE LET c == Read(st.bytes, st.offset + CodeOffset, CodeLen) IN
         IF Len(c) < CodeLen THEN [exc |-> "struct.error", error |-> NoError]
         ELSE LET code == Abs(Unpacki(c)) IN
              [exc |-> None,
               error |-> IF code > 0 THEN NetlinkError(code) ELSE NoError]

\* lines 85-93: the outcome of decoding the encapsulated request
AttachErrmsg(d, error, enc) ==
    IF enc.exc = "NetlinkHeaderDecodeError"
    THEN [exc |-> None, pos |-> d.pos,
          msg |-> [EmptyMsg EXCEPT !.error = NetlinkHeaderDecodeError]]
    ELSE IF enc.exc = "NetlinkDecodeError"
    THEN [exc |-> None, pos |-> d.pos,
          msg |-> [d.msg EXCEPT !.error = NetlinkDecodeError]]
    ELSE [exc |-> None, pos |-> d.pos,
          msg |-> [d.msg EXCEPT
                     !.error = error,
                     !.errmsg = [cls |-> enc.msg.cls,
                                 type |-> enc.msg.type,
                                 length |-> enc.msg.length]]]

\* lines 79-84: try to decode encapsulated error message; t is raw[24:26]
DecodeErrmsg(d, error, t, map) ==
    IF Len(t) < EncTypeLen
    THEN [exc |-> "struct.error", pos |-> d.pos, msg |-> d.msg]
    ELSE AttachErrmsg(d, error,
                      Decode(MapGet(map, UnpackH(t)), ReadAll(d.raw, EncOffset), 0))

\* lines 77-93: what the try block makes of the decoded message d
Attach(d, error, map) ==
    IF d.exc = "NetlinkHeaderDecodeError"
    THEN [exc |-> None, pos |-> d.pos,
          msg |-> [EmptyMsg EXCEPT !.error = NetlinkHeaderDecodeError]]
    ELSE IF d.exc = "NetlinkDecodeError"
    THEN [exc |-> None, pos |-> d.pos,
          msg |-> [d.msg EXCEPT !.error = NetlinkDecodeError]]
    ELSE IF error = NoError
    THEN [exc |-> None, pos |-> d.pos, msg |-> d.msg]
    ELSE DecodeErrmsg(d, error,
                      Slice(d.raw, EncTypeOffset, EncTypeOffset + EncTypeLen), map)

\* lines 75-93: decode the message at offset and attach the errors
DecodeAt(st, msg_type, error, map) ==
    Attach(Decode(MapGet(map, msg_type), st.bytes, st.offset), error, map)

\* lines 94-96
Tag(msg) ==
    IF msg.type \in {1, 2, 3, 4} THEN [msg EXCEPT !.event = mtypes(msg.type)]
    ELSE msg

\* lines 94-99: tag the message, advance the offset, append to the result
\* (or leave the loop with the exception of the decode step)
Advance(st, d) ==
    IF d.exc /= None THEN [st EXCEPT !.status = d.exc, !.pos = d.pos]
    ELSE [st EXCEPT !.pos = d.pos,
                    !.offset = st.offset + d.msg.length,
                    !.result = Append(st.result, Tag(d.msg))]

\* lines 67-99: the frame is complete; fe is the kernel error it carries
Frame(st, msg_type, fe, map) ==
    IF fe.exc /= None THEN [st EXCEPT !.status = fe.exc]
    ELSE Advance(st, DecodeAt(st, msg_type, fe.error, map))

\* lines 56-99: the length and type have been read
Scan(st, sock, map, length, msg_type) ==
    IF sock /= None /\ length + st.offset > st.length
    THEN [st EXCEPT !.status = "break",
                    !.save = [bytes |-> ReadAll(st.bytes, st.offset),
                              length |-> Len(ReadAll(st.bytes, st.offset)),
                              saved |-> TRUE],
                    !.bytes = SubSeq(st.bytes, 1, Min(st.offset, Len(st.bytes))),
                    !.pos = st.offset]
    ELSE Frame(st, msg_type, FrameError(st, msg_type), map)

\* lines 53-99: one iteration of the scan loop, entered with offset < length
ParseIter(st, sock, map) ==
    LET prefix == Read(st.bytes, st.pos, PrefixLen) IN
    IF Len(prefix) < PrefixLen THEN [st EXCEPT !.status = "struct.error"]
    ELSE Scan(st, sock, map, UnpackI(SubSeq(prefix, 1, 4)), UnpackH(SubSeq(prefix, 5, 6)))

\* an iteration that moved neither the offset nor the position repeats for
\* ever: the call never returns ("hang")
Stuck(st, nx) ==
    IF nx.status = "run" /\ nx.offset = st.offset /\ nx.pos = st.pos
    THEN [nx EXCEPT !.status = "hang"]
    ELSE nx

\* lines 52-101: the scan loop
RECURSIVE ParseLoop(_, _, _)
ParseLoop(st, sock, map) ==
    IF st.status /= "run" THEN st
    ELSE IF ~(st.offset < st.length) THEN [st EXCEPT !.status = "return"]
    ELSE ParseLoop(Stuck(st, ParseIter(st, sock, map)), sock, map)

\* lines 39-50: the buffer the scan starts from
ParseEnter(bytes, sock, defrag) ==
    IF sock \in DOMAIN defrag
    THEN [bytes |-> defrag[sock].bytes \o bytes,
          length |-> defrag[sock].length + Len(bytes),
          pos |-> 0, offset |-> 0, result |-> <<>>, save |-> NoSave,
          status |-> "run"]
    ELSE [bytes |-> bytes, length |-> Len(bytes),
          pos |-> 0, offset |-> 0, result |-> <<>>, save |-> NoSave,
          status |-> "run"]

\* lines 44-50, 59-65, 101: how the call ends ("return", "struct.error" or
\* "hang"), the list it returns and the defragmentation map it leaves
ParseLeave(st, sock, dropped) ==
    [status |-> IF st.status = "break" THEN "return" ELSE st.status,
     result |-> IF st.status \in {"return", "break"} THEN st.result ELSE <<>>,
     defrag |-> IF st.save.saved
                THEN [s \in DOMAIN dropped \cup {sock} |->
                        IF s = sock
                        THEN [bytes |-> st.save.bytes, length |-> st.save.length]
                        ELSE dropped[s]]
                ELSE dropped]

\* Marshal.parse(data, sock)
Parse(bytes, sock, defrag, map) ==
    ParseLeave(ParseLoop(ParseEnter(bytes, sock, defrag), sock, map), sock,
               [s \in DOMAIN defrag \ {sock} |-> defrag[s]])

(***************************************************************************)
(* Byte streams handed to parse.                                            *)
(***************************************************************************)
Zeros(n) == [j \in 1..n |-> 0]

\* a netlink frame: length, type, flags, sequence number, pid, body
NlMsg(length, type, body) ==
    PackI(length) \o PackH(type) \o PackH(0) \o PackI(0) \o PackI(0) \o body

RTM_NEWLINK == 16
RTM_DELLINK == 17
RTM_NEWADDR == 20
EEXIST == 17

\* complete frames whose payload suits the decoder of their type
WellFormed ==
    { NlMsg(16, 3, <<>>),
      NlMsg(32, RTM_NEWLINK, Zeros(16)),
      NlMsg(24, RTM_NEWADDR, Zeros(8)),
      NlMsg(36, NLMSG_ERROR, Packi(0) \o NlMsg(16, RTM_NEWLINK, <<>>)),
      NlMsg(52, NLMSG_ERROR, Packi(-EEXIST) \o NlMsg(32, RTM_NEWLINK, Zeros(16))) }

\* frames a decoder stumbles on
Malformed ==
    { NlMsg(36, NLMSG_ERROR, Packi(-EEXIST) \o NlMsg(32, RTM_NEWLINK, <<>>)),
      NlMsg(28, NLMSG_ERROR, Packi(-EEXIST) \o Zeros(8)),
      NlMsg(20, NLMSG_ERROR, Packi(-1)),
      NlMsg(20, RTM_NEWADDR, Zeros(4)),
      NlMsg(20, RTM_DELLINK, Zeros(4)),
      NlMsg(0, RTM_NEWLINK, <<>>),
      PackI(8) \o PackH(RTM_NEWLINK) \o PackH(0) }

\* 40 bytes: two 20-byte messages of types 16 and 17
TwoLinkMessages ==
    NlMsg(20, RTM_NEWLINK, Zeros(4)) \o NlMsg(20, RTM_DELLINK, Zeros(4))

RECURSIVE Concat(_)
Concat(chunks) ==
    IF chunks = <<>> THEN <<>> ELSE Head(chunks) \o Concat(Tail(chunks))

\* the streams of 1..n frames
RECURSIVE StreamsOf(_, _)
StreamsOf(frames, n) ==
    IF n = 0 THEN {}
    ELSE frames \cup { a \o b : a \in frames, b \in StreamsOf(frames, n - 1) }

WellFormedStreams == StreamsOf(WellFormed, MaxMsgs)

Streams == WellFormedStreams \cup StreamsOf(WellFormed \cup Malformed, MaxMsgs)

\* the ways of cutting a stream into exactly n non-empty datagrams
RECURSIVE Cuts(_, _)
Cuts(bytes, n) ==
    IF n = 1 THEN IF bytes = <<>> THEN {} ELSE { <<bytes>> }
    ELSE UNION { { <<SubSeq(bytes, 1, k)>> \o rest :
                     rest \in Cuts(SubSeq(bytes, k + 1, Len(bytes)), n - 1) } :
                 k \in 1..(Len(bytes) - 1) }

Chunkings(bytes) ==
    Cuts(bytes, 1)
    \cup (IF bytes \in WellFormedStreams \cup Malformed THEN Cuts(bytes, 2) ELSE {})
    \cup IF Len(bytes) <= ShortStream
         THEN UNION { Cuts(bytes, n) : n \in 3..MaxChunks }
         ELSE {}

Ids == {"s1", "s2", None}

\* the policies a caller has registered before reading
Policies ==
    { <<>>,
      [t \in {RTM_NEWLINK, RTM_DELLINK, RTM_NEWADDR} |->
         IF t = RTM_NEWADDR THEN "ifaddrmsg" ELSE "ifinfmsg"] }

\* what the second socket of the Marshal receives meanwhile
OtherFeed ==
    <<SubSeq(NlMsg(16, 3, <<>>), 1, 10), SubSeq(NlMsg(16, 3, <<>>), 11, 16)>>

Feed(c1, c2, c0) == [s \in Ids |-> IF s = "s1" THEN c1 ELSE IF s = "s2" THEN c2 ELSE c0]

\* the datagrams the callers of one Marshal hand to parse: one socket reads a
\* stream cut at any place; two sockets read at the same time; a caller
\* parses buffers with no socket
Feeds ==
    { Feed(c, <<>>, <<>>) : c \in UNION { Chunkings(w) : w \in Streams } }
    \cup { Feed(<<TwoLinkMessages>>, <<>>, <<>>), Feed(<<>>, <<>>, <<TwoLinkMessages>>) }
    \cup { Feed(c, OtherFeed, <<>>) : c \in UNION { Cuts(w, 2) : w \in WellFormed } }
    \cup { Feed(<<>>, <<>>, c) :
             c \in UNION { Cuts(w, 1) : w \in Streams }
                   \cup UNION { Cuts(w, 2) : w \in WellFormed \cup Malformed } }

\* the threads of the process, and locals of a thread outside parse
Threads == 1..NThreads

NoState == ParseEnter(<<>>, None, <<>>)

NoThreads ==
    [lock |-> 0,
     pc |-> [t \in Threads |-> "idle"],
     data |-> [t \in Threads |-> <<>>],
     st |-> [t \in Threads |-> NoState],
     taken |-> <<>>,
     parsed |-> <<>>]

(***************************************************************************)
(* The decode policy: NetlinkSocket.register_policy, unregister_policy and  *)
(* get_policy_map work on self.marshal.msg_map.                             *)
(***************************************************************************)
KeyError == [type |-> "KeyError", errno |-> 0]

PolicyAssertionError == [type |-> "AssertionError", errno |-> 0]

PolicyReturned == [type |-> "None", errno |-> 0]

\* dict(map) with map[key] = cls
SetItem(map, key, cls) ==
    [k \in DOMAIN map \cup {key} |-> IF k = key THEN cls ELSE map[k]]

\* dict(map) after del map[key]
DelItem(map, key) == [k \in DOMAIN map \ {key} |-> map[k]]

\* lines 174-175: for key in policy: self.marshal.msg_map[key] = policy[key]
RECURSIVE Merge(_, _, _)
Merge(map, policy, keys) ==
    IF keys = {} THEN map
    ELSE LET key == CHOOSE k \in keys : TRUE IN
         Merge(SetItem(map, key, policy[key]), policy, keys \ {key})

\* RegisterPolicy with a bug: the policy given replaces the whole map
RegisterPolicyReplace(map, policy, msg_class) ==
    IF policy.int /\ msg_class = None
    THEN [exc |-> PolicyAssertionError, map |-> map, ret |-> <<>>]
    ELSE IF policy.int
    THEN [exc |-> PolicyReturned, map |-> SetItem(<<>>, policy.key, msg_class),
          ret |-> SetItem(<<>>, policy.key, msg_class)]
    ELSE [exc |-> PolicyReturned, map |-> policy.dict, ret |-> policy.dict]

\* register_policy(policy, msg_class): policy is an int (a message type,
\* policy.int) or a dict (policy.dict); the exception raised, the map left
\* and the value returned
RegisterPolicy(map, policy, msg_class) ==
    IF policy.int /\ msg_class = None
    THEN [exc |-> PolicyAssertionError, map |-> map, ret |-> <<>>]
    ELSE IF policy.int
    THEN [exc |-> PolicyReturned, map |-> SetItem(map, policy.key, msg_class),
          ret |-> SetItem(map, policy.key, msg_class)]
    ELSE [exc |-> PolicyReturned,
          map |-> Merge(map, policy.dict, DOMAIN policy.dict),
          ret |-> Merge(map, policy.dict, DOMAIN policy.dict)]

\* lines 198-201: for key in policy: del self.marshal.msg_map[key]
RECURSIVE UnregisterPolicy(_, _)
UnregisterPolicy(map, keys) ==
    IF keys = <<>> THEN [exc |-> PolicyReturned, map |-> map, ret |-> map]
    ELSE IF Head(keys) \notin DOMAIN map
    THEN [exc |-> KeyError, map |-> map, ret |-> <<>>]
    ELSE UnregisterPolicy(DelItem(map, Head(keys)), Tail(keys))

\* lines 217-221: ret[key] = self.marshal.msg_map[key] for key in policy
RECURSIVE SubMap(_, _, _)
SubMap(map, keys, ret) ==
    IF keys = <<>> THEN [exc |-> PolicyReturned, map |-> map, ret |-> ret]
    ELSE IF Head(keys) \notin DOMAIN map
    THEN [exc |-> KeyError, map |-> map, ret |-> <<>>]
    ELSE SubMap(map, Tail(keys), SetItem(ret, Head(keys), map[Head(keys)]))

\* get_policy_map(policy): policy is None (policy.all) or a list of types
GetPolicyMap(map, policy) ==
    IF policy.all THEN [exc |-> PolicyReturned, map |-> map, ret |-> map]
    ELSE SubMap(map, policy.keys, <<>>)

NoPolicyCall ==
    [op |-> "none", keys |-> <<>>, exc |-> PolicyReturned, before |-> <<>>,
     ret |-> <<>>, given |-> <<>>]

ParseInit ==
    /\ msg_map \in Policies
    /\ defragmentation = <<>>
    /\ feed \in Feeds
    /\ whole = [s \in Ids |-> Concat(feed[s])]
    /\ returned = [s \in Ids |-> <<>>]
    /\ pcall = NoPolicyCall
    /\ thr = NoThreads

\* a call that never returns keeps Marshal.lock for ever
Hung == \E s \in Ids : \E j \in 1..Len(returned[s]) : returned[s][j].status = "hang"

\* NetlinkSocket.get / a direct Marshal.parse(data, sock) call
Returned(s, r) ==
    /\ defragmentation' = r.defrag
    /\ returned' = [returned EXCEPT
                      ![s] = Append(@, [status |-> r.status, result |-> r.result])]

ParseCall(s) ==
    /\ ~Hung
    /\ feed[s] /= <<>>
    /\ Returned(s, Parse(Head(feed[s]), s, defragmentation, msg_map))
    /\ feed' = [feed EXCEPT ![s] = Tail(@)]
    /\ UNCHANGED <<msg_map, whole, pool, ep, foreign, last, pcall, thr>>

NextParse == \E s \in Ids : ParseCall(s)

(***************************************************************************)
(* Callers of the policy operations of one NetlinkSocket, which also reads. *)
(***************************************************************************)
PolicyKeys == {RTM_NEWLINK, RTM_DELLINK, RTM_NEWADDR}

Classes == {"ifinfmsg", "ifaddrmsg"}

IntPolicy(key) == [int |-> TRUE, key |-> key, dict |-> <<>>]

DictPolicy(dict) == [int |-> FALSE, key |-> 0, dict |-> dict]

\* register_policy(MSG_ID, msg_class), register_policy(MSG_ID) and
\* register_policy({MSG_ID1: msg_class, ...})
RegisterArgs ==
    { <<IntPolicy(k), c>> : k \in {RTM_NEWLINK, RTM_NEWADDR}, c \in Classes \cup {None} }
    \cup { <<DictPolicy(d), None>> :
             d \in Policies \cup { [t \in {RTM_NEWLINK} |-> "ifaddrmsg"] } }

\* lists of message types (an int is the list of itself, a dict the list of
\* its keys)
KeyLists == UNION { [1..n -> PolicyKeys] : n \in 1..MaxKeys }

\* the dict a register_policy call merges
Given(policy, msg_class) ==
    IF ~policy.int THEN policy.dict
    ELSE IF msg_class = None THEN <<>>
    ELSE SetItem(<<>>, policy.key, msg_class)

\* get_policy_map() and get_policy_map(types)
GetArgs ==
    { [all |-> TRUE, keys |-> <<>>] } \cup { [all |-> FALSE, keys |-> k] : k \in KeyLists }

PolicyCalled(op, keys, given, r) ==
    /\ msg_map' = r.map
    /\ pcall' = [op |-> op, keys |-> keys, exc |-> r.exc, before |-> msg_map,
                 ret |-> r.ret, given |-> given]

Register(policy, msg_class) ==
    /\ PolicyCalled("register", <<>>, Given(policy, msg_class),
                    RegisterPolicy(msg_map, policy, msg_class))
    /\ UNCHANGED <<defragmentation, feed, returned, whole, pool, ep, foreign, last, thr>>

Unregister(keys) ==
    /\ PolicyCalled("unregister", keys, <<>>, UnregisterPolicy(msg_map, keys))
    /\ UNCHANGED <<defragmentation, feed, returned, whole, pool, ep, foreign, last, thr>>

GetPolicy(policy) ==
    /\ PolicyCalled(IF policy.all THEN "get all" ELSE "get", policy.keys, <<>>,
                    GetPolicyMap(msg_map, policy))
    /\ UNCHANGED <<defragmentation, feed, returned, whole, pool, ep, foreign, last, thr>>

\* a datagram of two messages of different types
LinkThenAddr ==
    NlMsg(32, RTM_NEWLINK, Zeros(16)) \o NlMsg(24, RTM_NEWADDR, Zeros(8))

\* a socket whose marshal starts with no policy and is about to read one
\* datagram holding complete messages
PolicyInit ==
    /\ msg_map = <<>>
    /\ defragmentation = <<>>
    /\ feed \in { Feed(<<w>>, <<>>, <<>>) : w \in WellFormed \cup {LinkThenAddr} }
    /\ whole = [s \in Ids |-> Concat(feed[s])]
    /\ returned = [s \in Ids |-> <<>>]
    /\ pcall = NoPolicyCall
    /\ thr = NoThreads

NextPolicy ==
    \/ \E a \in RegisterArgs : Register(a[1], a[2])
    \/ \E keys \in KeyLists : Unregister(keys)
    \/ \E policy \in GetArgs : GetPolicy(policy)
    \/ \E s \in Ids : ParseCall(s)

(***************************************************************************)
(* Threads calling NetlinkSocket.get() on one socket ("s1"): recv, then     *)
(* Marshal.parse under `with self.lock`.  thr.lock is the thread holding    *)
(* Marshal.lock (0: free); thr.pc[t] is where thread t stands; thr.data[t]  *)
(* and thr.st[t] are its locals; thr.taken lists the datagrams in the       *)
(* order recv returned them, thr.parsed in the order parse began on them.   *)
(***************************************************************************)
\* Release with a bug: the lock is handed back only when parse returns
ReleaseOnReturn(holder, status) ==
    IF status \in {"return", "break"} THEN 0 ELSE holder

\* threading.Lock.__exit__: leaving the with block, by return or by an
\* exception, releases the lock
Release(holder, status) == 0

\* line 266: self.recv(16384) hands the thread the next datagram
GetRecv(t) ==
    /\ thr.pc[t] = "idle"
    /\ feed["s1"] /= <<>>
    /\ feed' = [feed EXCEPT !["s1"] = Tail(@)]
    /\ thr' = [thr EXCEPT !.pc[t] = "recvd",
                          !.data[t] = Head(feed["s1"]),
                          !.taken = Append(@, Head(feed["s1"]))]
    /\ UNCHANGED <<msg_map, defragmentation, returned, whole, pool, ep, foreign,
                   last, pcall>>

\* line 38: with self.lock (blocks while another thread holds the lock)
LockAcquire(t) ==
    /\ thr.pc[t] = "recvd"
    /\ thr.lock = 0
    /\ thr' = [thr EXCEPT !.lock = t, !.pc[t] = "enter"]
    /\ UNCHANGED <<msg_map, defragmentation, feed, returned, whole, pool, ep,
                   foreign, last, pcall>>

\* lines 39-50: take the buffer saved for the socket, if any
ParseBegin(t) ==
    /\ thr.pc[t] = "enter"
    /\ thr' = [thr EXCEPT !.pc[t] = "scan",
                          !.st[t] = ParseEnter(thr.data[t], "s1", defragmentation),
                          !.parsed = Append(@, thr.data[t])]
    /\ defragmentation' = [s \in DOMAIN defragmentation \ {"s1"} |-> defragmentation[s]]
    /\ UNCHANGED <<msg_map, feed, returned, whole, pool, ep, foreign, last, pcall>>

Scanned(t, st) ==
    /\ thr' = [thr EXCEPT !.pc[t] = IF st.status = "hang" THEN "spin" ELSE "leave",
                          !.st[t] = st]
    /\ defragmentation' = ParseLeave(st, "s1", defragmentation).defrag

\* lines 52-99: the scan loop, which saves a partial message (line 61)
ParseScan(t) ==
    /\ thr.pc[t] = "scan"
    /\ Scanned(t, ParseLoop(thr.st[t], "s1", msg_map))
    /\ UNCHANGED <<msg_map, feed, returned, whole, pool, ep, foreign, last, pcall>>

\* line 101 or an exception: the with block is left
ParseEnd(t) ==
    /\ thr.pc[t] = "leave"
    /\ thr' = [thr EXCEPT !.pc[t] = "idle",
                          !.lock = Release(thr.lock, thr.st[t].status),
                          !.data[t] = <<>>,
                          !.st[t] = NoState]
    /\ returned' = [returned EXCEPT
                      !["s1"] = Append(@, [status |-> ParseLeave(thr.st[t], "s1", <<>>).status,
                                           result |-> ParseLeave(thr.st[t], "s1", <<>>).result])]
    /\ UNCHANGED <<msg_map, defragmentation, feed, whole, pool, ep, foreign, last, pcall>>

\* the socket receives a stream of complete messages in one or two datagrams
ThreadsInit ==
    /\ msg_map \in Policies
    /\ defragmentation = <<>>
    /\ feed \in { Feed(c, <<>>, <<>>) :
                    c \in UNION { Cuts(w, 1) \cup Cuts(w, 2) : w \in WellFormedStreams } }
    /\ whole = [s \in Ids |-> Concat(feed[s])]
    /\ returned = [s \in Ids |-> <<>>]
    /\ pcall = NoPolicyCall
    /\ thr = NoThreads

NextThreads ==
    \/ \E t \in Threads : GetRecv(t)
    \/ \E t \in Threads : LockAcquire(t)
    \/ \E t \in Threads : ParseBegin(t)
    \/ \E t \in Threads : ParseScan(t)
    \/ \E t \in Threads : ParseEnd(t)

(***************************************************************************)
(* The process-wide port pool, sockets = AddrPool(0x0, 0x3ff, reverse=True) *)
(* (pyroute2.iocore.addrpool): alloc hands out the highest free port and    *)
(* fails when none is free; free of a port that is not allocated fails.     *)
(***************************************************************************)
MaxAddr == NPorts - 1

\* how a call ends: it returns (NoExc) or raises
NoExc == [type |-> "None", errno |-> 0]

SocketError(errno) == [type |-> "socket.error", errno |-> errno]

PoolExhausted == [type |-> "PoolExhausted", errno |-> 0]

NotAllocated == [type |-> "NotAllocated", errno |-> 0]

AssertionError == [type |-> "AssertionError", errno |-> 0]

Ports == 0..MaxAddr

BindRange == NPorts

SetMax(S) == CHOOSE x \in S : \A y \in S : y <= x

\* sockets.alloc()
Alloc(p) ==
    IF Ports \ p = {} THEN [exc |-> PoolExhausted, port |-> NoneInt, pool |-> p]
    ELSE [exc |-> NoExc, port |-> SetMax(Ports \ p),
          pool |-> p \cup {SetMax(Ports \ p)}]

\* sockets.free(port)
Free(p, port) ==
    IF port \in p THEN [exc |-> NoExc, pool |-> p \ {port}]
    ELSE [exc |-> NotAllocated, pool |-> p]

(***************************************************************************)
(* NetlinkSocket.                                                           *)
(***************************************************************************)
Sockets == 1..NSockets

\* port << 22
Shl(port) == port * (2 ^ PidBits)

\* pid + (port << 22)
Epid(pid, port) == pid + Shl(port)

\* NetlinkSocket.__init__(port, pid); sock and kaddr are the state of the
\* underlying socket: unbound, bound (to kaddr) or closed
Construct(port, pid) ==
    IF pid = NoneInt
    THEN [pid |-> MyPid, port |-> port, fixed |-> (port /= NoneInt),
          epid |-> NoneInt, groups |-> 0, sock |-> "unbound", kaddr |-> NoneInt]
    ELSE IF pid = 0
    THEN [pid |-> MyPid, port |-> 0, fixed |-> TRUE,
          epid |-> NoneInt, groups |-> 0, sock |-> "unbound", kaddr |-> NoneInt]
    ELSE [pid |-> pid, port |-> 0, fixed |-> TRUE,
          epid |-> NoneInt, groups |-> 0, sock |-> "unbound", kaddr |-> NoneInt]

\* socket.socket.bind(self, (addr, groups)): the errno of the system call
\* (0: bound).  inuse are the addresses other sockets are bound to.
SocketBind(rec, addr, inuse) ==
    IF rec.sock = "closed" THEN EBADF
    ELSE IF rec.sock = "bound" THEN (IF addr = rec.kaddr THEN 0 ELSE EINVAL)
    ELSE IF addr \in inuse THEN EADDRINUSE
    ELSE 0

Bound(rec, addr) == [rec EXCEPT !.sock = "bound", !.kaddr = addr]

\* what a bind call did: the exception it raised (NoExc: it returned), the
\* iterations of the scan it began, the ports it allocated and those whose
\* bind attempt failed with errno 98
BindDone(rec, p, exc, iterations, allocs, rejected) ==
    [rec |-> rec, pool |-> p, exc |-> exc, iterations |-> iterations,
     allocs |-> allocs, rejected |-> rejected]

\* BindFixed with a bug: the port is taken from the pool
BindFixedFromPool(rec, p, inuse) ==
    LET r == [rec EXCEPT !.port = Alloc(p).port, !.epid = Epid(rec.pid, Alloc(p).port)]
        errno == SocketBind(r, r.epid, inuse)
    IN  IF errno = 0 THEN BindDone(Bound(r, r.epid), Alloc(p).pool, NoExc, 0, {}, {})
        ELSE BindDone(r, Alloc(p).pool, SocketError(errno), 0, {}, {})

\* lines 239-242: the pre-defined port is used strictly
BindFixed(rec, p, inuse) ==
    LET r == [rec EXCEPT !.epid = Epid(rec.pid, rec.port)]
        errno == SocketBind(r, r.epid, inuse)
    IN  IF errno = 0 THEN BindDone(Bound(r, r.epid), p, NoExc, 0, {}, {})
        ELSE BindDone(r, p, SocketError(errno), 0, {}, {})

\* BindScan with a bug: a bind error other than errno 98 hands the port back
\* to the pool and leaves it recorded in the object
RECURSIVE BindScanFreeOnError(_, _, _, _, _, _)
BindScanFreeOnError(i, rec, p, inuse, allocs, rejected) ==
    IF i = BindRange
    THEN BindDone(rec, p, SocketError(EADDRINUSE), i, allocs, rejected)
    ELSE LET a == Alloc(p) IN
         IF a.exc /= NoExc
         THEN BindDone(rec, p, a.exc, i + 1, allocs, rejected)
         ELSE LET r == [rec EXCEPT !.port = a.port, !.epid = Epid(rec.pid, a.port)]
                  errno == SocketBind(r, r.epid, inuse)
              IN  IF errno = 0
                  THEN BindDone(Bound(r, r.epid), a.pool, NoExc, i + 1,
                                allocs \cup {a.port}, rejected)
                  ELSE IF errno /= EADDRINUSE
                  THEN BindDone(r, p, SocketError(errno), i + 1,
                                allocs \cup {a.port}, rejected)
                  ELSE BindScanFreeOnError(i + 1, r, a.pool, inuse,
                                allocs \cup {a.port}, rejected \cup {a.port})

\* lines 246-259: scan the range till the first available port
RECURSIVE BindScan(_, _, _, _, _, _)
BindScan(i, rec, p, inuse, allocs, rejected) ==
    IF i = BindRange
    THEN BindDone(rec, p, SocketError(EADDRINUSE), i, allocs, rejected)
    ELSE LET a == Alloc(p) IN
         IF a.exc /= NoExc
         THEN BindDone(rec, p, a.exc, i + 1, allocs, rejected)
         ELSE LET r == [rec EXCEPT !.port = a.port, !.epid = Epid(rec.pid, a.port)]
                  errno == SocketBind(r, r.epid, inuse)
              IN  IF errno = 0
                  THEN BindDone(Bound(r, r.epid), a.pool, NoExc, i + 1,
                                allocs \cup {a.port}, rejected)
                  ELSE IF errno /= EADDRINUSE
                  THEN BindDone(r, a.pool, SocketError(errno), i + 1,
                                allocs \cup {a.port}, rejected)
                  ELSE BindScan(i + 1, r, a.pool, inuse,
                                allocs \cup {a.port}, rejected \cup {a.port})

\* NetlinkSocket.bind(groups, pid)
BindCall(rec, groups, pid, p, inuse) ==
    LET r == IF pid /= NoneInt
             THEN [rec EXCEPT !.port = 0, !.fixed = TRUE,
                              !.pid = IF pid = 0 THEN MyPid ELSE pid,
                              !.groups = groups]
             ELSE [rec EXCEPT !.groups = groups]
    IN  IF r.fixed THEN BindFixed(r, p, inuse)
        ELSE BindScan(0, r, p, inuse, {}, {})

\* CloseCall with a bug: epid is not reset
CloseCallKeepsEpid(rec, p) ==
    IF rec.epid = NoneInt
    THEN [rec |-> [rec EXCEPT !.sock = "closed", !.kaddr = NoneInt],
          pool |-> p, exc |-> NoExc, freed |-> {}]
    ELSE IF rec.fixed
    THEN [rec |-> [rec EXCEPT !.sock = "closed", !.kaddr = NoneInt],
          pool |-> p, exc |-> NoExc, freed |-> {}]
    ELSE LET f == Free(p, rec.port) IN
         IF f.exc /= NoExc
         THEN [rec |-> rec, pool |-> p, exc |-> f.exc, freed |-> {rec.port}]
         ELSE [rec |-> [rec EXCEPT !.sock = "closed", !.kaddr = NoneInt],
               pool |-> f.pool, exc |-> NoExc, freed |-> {rec.port}]

\* NetlinkSocket.close(): the exception raised (NoExc: it returned) and the
\* ports handed to sockets.free
CloseCall(rec, p) ==
    IF rec.epid = NoneInt
    THEN [rec |-> [rec EXCEPT !.sock = "closed", !.kaddr = NoneInt],
          pool |-> p, exc |-> NoExc, freed |-> {}]
    ELSE IF rec.port = NoneInt
    THEN [rec |-> rec, pool |-> p, exc |-> AssertionError, freed |-> {}]
    ELSE IF rec.fixed
    THEN [rec |-> [rec EXCEPT !.epid = NoneInt, !.sock = "closed", !.kaddr = NoneInt],
          pool |-> p, exc |-> NoExc, freed |-> {}]
    ELSE LET f == Free(p, rec.port) IN
         IF f.exc /= NoExc
         THEN [rec |-> rec, pool |-> p, exc |-> f.exc, freed |-> {rec.port}]
         ELSE [rec |-> [rec EXCEPT !.epid = NoneInt, !.sock = "closed",
                                   !.kaddr = NoneInt],
               pool |-> f.pool, exc |-> NoExc, freed |-> {rec.port}]

\* the addresses sockets other than e are bound to
InUse(e) ==
    foreign \cup { ep[o].kaddr : o \in { x \in Sockets \ {e} : ep[x].sock = "bound" } }

NoCall ==
    [op |-> "none", e |-> 0, exc |-> NoExc, iterations |-> 0, allocs |-> {},
     rejected |-> {}, freed |-> {}, full |-> FALSE, fixed |-> FALSE,
     held |-> FALSE]

\* the arguments callers construct sockets and call bind with
PortArgs == {NoneInt, MaxAddr}

PidArgs == {NoneInt, 0}

Groups == {1}

\* other processes hold the addresses of no port of this pid, of the highest
\* one, or of all of them
Foreign ==
    { { Epid(MyPid, q) : q \in { x \in Ports : x >= j } } : j \in {0, MaxAddr, NPorts} }

SockInit ==
    /\ pool = {}
    /\ ep \in [Sockets -> { Construct(port, pid) :
                             port \in PortArgs, pid \in {NoneInt, 0, OtherPid} }]
    /\ foreign \in Foreign
    /\ last = NoCall

Bind(e, groups, pid) ==
    LET r == BindCall(ep[e], groups, pid, pool, InUse(e)) IN
      /\ ep' = [ep EXCEPT ![e] = r.rec]
      /\ pool' = r.pool
      /\ last' = [op |-> "bind", e |-> e, exc |-> r.exc,
                  iterations |-> r.iterations, allocs |-> r.allocs,
                  rejected |-> r.rejected, freed |-> {},
                  full |-> (pool = Ports),
                  fixed |-> (pid /= NoneInt \/ ep[e].fixed),
                  held |-> FALSE]
      /\ UNCHANGED <<foreign, msg_map, defragmentation, feed, returned, whole, pcall, thr>>

Close(e) ==
    LET r == CloseCall(ep[e], pool) IN
      /\ ep' = [ep EXCEPT ![e] = r.rec]
      /\ pool' = r.pool
      /\ last' = [op |-> "close", e |-> e, exc |-> r.exc, iterations |-> 0,
                  allocs |-> {}, rejected |-> {}, freed |-> r.freed,
                  full |-> (pool = Ports), fixed |-> ep[e].fixed,
                  held |-> (ep[e].epid /= NoneInt /\ ~ep[e].fixed)]
      /\ UNCHANGED <<foreign, msg_map, defragmentation, feed, returned, whole, pcall, thr>>

Next ==
    \/ \E e \in Sockets, g \in Groups, pid \in PidArgs : Bind(e, g, pid)
    \/ \E e \in Sockets : Close(e)

ParseIdle ==
    /\ msg_map = <<>>
    /\ defragmentation = <<>>
    /\ feed = [s \in Ids |-> <<>>]
    /\ returned = [s \in Ids |-> <<>>]
    /\ whole = [s \in Ids |-> <<>>]
    /\ pcall = NoPolicyCall
    /\ thr = NoThreads

SockIdle ==
    /\ pool = {}
    /\ ep = [e \in Sockets |-> Construct(NoneInt, NoneInt)]
    /\ foreign = {}
    /\ last = NoCall

Init == SockInit /\ ParseIdle

Spec == Init /\ [][Next]_vars

InitParse == ParseInit /\ SockIdle

SpecParse == InitParse /\ [][NextParse]_vars

InitPolicy == PolicyInit /\ SockIdle

SpecPolicy == InitPolicy /\ [][NextPolicy]_vars

InitThreads == ThreadsInit /\ SockIdle

SpecThreads == InitThreads /\ [][NextThreads]_vars

(***************************************************************************)
(* Claims about Marshal.parse, checked under SpecParse.                     *)
(***************************************************************************)
\* the bytes of whole[s] handed to parse so far
Consumed(s) == SubSeq(whole[s], 1, Len(whole[s]) - Len(Concat(feed[s])))

\* C1: a buffer of complete well-formed messages cut at any offset k and fed
\* through two sequential parse calls on the same identity returns, in all,
\* the message list a single parse of the whole buffer returns.
C1_SplitParseEqualsWhole ==
    (whole["s1"] \in WellFormedStreams /\ Len(returned["s1"]) = 2 /\ feed["s1"] = <<>>) =>
      LET w == Parse(whole["s1"], "s1", <<>>, msg_map) IN
        /\ returned["s1"][1].status = "return"
        /\ returned["s1"][2].status = "return"
        /\ returned["s1"][1].result \o returned["s1"][2].result = w.result

\* C2: the defragmentation map holds one buffer per identity, and after three
\* partial chunks of one message the stored buffer is their concatenation.
C2_ThreePartialChunksKept ==
    \A s \in {"s1", "s2"} :
      (/\ whole[s] \in WellFormed
       /\ Len(returned[s]) = 3
       /\ Len(Consumed(s)) < Len(whole[s])) =>
         /\ s \in DOMAIN defragmentation
         /\ defragmentation[s].bytes = Consumed(s)
         /\ defragmentation[s].length = Len(Consumed(s))

\* every message the calls on identity s have returned, in order
RECURSIVE Results(_)
Results(rs) ==
    IF rs = <<>> THEN <<>> ELSE Head(rs).result \o Results(Tail(rs))

\* C9: every returned message of type NLMSG_ERROR carries a NetlinkError with
\* the magnitude of the signed code at offset 16 if and only if that code is
\* not zero (also when decoding the embedded request fails), and carries no
\* error when the code is zero.
C9_KernelErrorIffNonZeroCode ==
    \A s \in Ids : \A j \in 1..Len(Results(returned[s])) :
      LET m == Results(returned[s])[j] IN
        (m.type = NLMSG_ERROR /\ Len(m.raw) >= CodeOffset + CodeLen) =>
          IF Unpacki(Slice(m.raw, CodeOffset, CodeOffset + CodeLen)) = 0
          THEN m.error = NoError
          ELSE m.error =
                 NetlinkError(Abs(Unpacki(Slice(m.raw, CodeOffset, CodeOffset + CodeLen))))

\* frames that are all there (declared length = bytes present); error frames
\* long enough for the type of the embedded request to be read
Framed ==
    { f \in WellFormed \cup Malformed :
        /\ UnpackI(SubSeq(f, 1, 4)) = Len(f)
        /\ UnpackH(SubSeq(f, 5, 6)) = NLMSG_ERROR => Len(f) >= EncTypeOffset + EncTypeLen }

FramedSeqs == UNION { [1..n -> Framed] : n \in 1..MaxMsgs }

\* C10: a decode-time error never aborts a parse: a buffer of complete
\* messages parsed in one call returns one entry per message, in buffer
\* order, each either the message decoded from its bytes or the empty message
\* carrying the header-decode error.
C10_OneEntryPerMessage ==
    \A s \in Ids : \A fs \in FramedSeqs :
      (whole[s] = Concat(fs) /\ feed[s] = <<>> /\ Len(returned[s]) = 1) =>
        /\ returned[s][1].status = "return"
        /\ Len(returned[s][1].result) = Len(fs)
        /\ \A i \in 1..Len(fs) :
             i <= Len(returned[s][1].result) =>
               \/ returned[s][1].result[i].raw = fs[i]
               \/ returned[s][1].result[i].error = NetlinkHeaderDecodeError

\* C15: the 40-byte buffer of two 20-byte messages of types 16 and 17 parses
\* to two messages in buffer order, each carrying an event tag.
C15_LinkMessagesTagged ==
    \A s \in Ids :
      (whole[s] = TwoLinkMessages /\ feed[s] = <<>> /\ Len(returned[s]) = 1) =>
        /\ returned[s][1].status = "return"
        /\ Len(returned[s][1].result) = 2
        /\ returned[s][1].result[1].type = RTM_NEWLINK
        /\ returned[s][1].result[2].type = RTM_DELLINK
        /\ returned[s][1].result[1].event /= None
        /\ returned[s][1].result[2].event /= None

\* every iteration of the scan loop begun in state st strictly increases the
\* offset or leaves the loop
RECURSIVE Progress(_, _, _)
Progress(st, sock, map) ==
    IF st.status /= "run" \/ ~(st.offset < st.length) THEN TRUE
    ELSE LET nx == ParseIter(st, sock, map) IN
         IF nx.status = "run" /\ nx.offset <= st.offset THEN FALSE
         ELSE Progress(nx, sock, map)

\* C19: parse terminates on every buffer: no call spins for ever, and in a
\* call on a whole buffer every iteration of the scan loop strictly increases
\* the offset or leaves the loop.
C19_ParseTerminates ==
    \A s \in Ids :
      /\ \A j \in 1..Len(returned[s]) : returned[s][j].status /= "hang"
      /\ (Len(returned[s]) = 1 /\ feed[s] = <<>>) =>
           Progress(ParseEnter(whole[s], s, <<>>), s, msg_map)

(***************************************************************************)
(* Claims about NetlinkSocket.bind and close, checked under Spec.           *)
(***************************************************************************)
\* the socket holds a port of the pool: close will hand it to sockets.free
HoldsPort(e) == ep[e].epid /= NoneInt /\ ~ep[e].fixed

\* C3: two bound sockets of the process that were both bound without an
\* explicit identity record different addresses and different ports.
C3_AutoAddressesDiffer ==
    \A a, b \in Sockets :
      (/\ a /= b
       /\ ep[a].sock = "bound" /\ ~ep[a].fixed
       /\ ep[b].sock = "bound" /\ ~ep[b].fixed) =>
         /\ ep[a].epid /= ep[b].epid
         /\ ep[a].port /= ep[b].port

C3_TwoAutoBound ==
    \E a, b \in Sockets :
      /\ a /= b
      /\ ep[a].sock = "bound" /\ ~ep[a].fixed
      /\ ep[b].sock = "bound" /\ ~ep[b].fixed

\* C4: when a bind without explicit identity ends, every port whose bind
\* attempt failed with errno 98 is free again, and at most one of the ports
\* the call allocated is still allocated.
C4_RejectedPortsReleased ==
    (last.op = "bind" /\ ~last.fixed) =>
      /\ last.rejected \cap pool = {}
      /\ Cardinality(last.allocs \cap pool) <= 1

\* C5: a bind without explicit identity called with every port of the pool
\* allocated raises socket.error 98 after scanning the whole range.
C5_FullPoolIsAddressInUse ==
    (last.op = "bind" /\ ~last.fixed /\ last.full) =>
      /\ last.exc = SocketError(EADDRINUSE)
      /\ last.iterations = BindRange

\* C6: close frees the pool port the socket holds (last.held: it had a
\* recorded address and no caller-supplied identity), exactly that one, and
\* no port otherwise; it never fails; a second close changes nothing and
\* frees nothing.
C6_CloseFreesHeldPortOnce ==
    /\ \A e \in Sockets : HoldsPort(e) => ep[e].port \in pool
    /\ \A a, b \in Sockets : (a /= b /\ HoldsPort(a) /\ HoldsPort(b)) => ep[a].port /= ep[b].port
    /\ last.op = "close" =>
         /\ last.exc = NoExc
         /\ Cardinality(last.freed) = (IF last.held THEN 1 ELSE 0)
         /\ last.fixed => last.freed = {}
         /\ last.freed \cap pool = {}
         /\ ep[last.e].epid = NoneInt
         /\ LET again == CloseCall(ep[last.e], pool) IN
              /\ again.exc = NoExc
              /\ again.freed = {}
              /\ again.pool = pool
              /\ again.rec = ep[last.e]

C6_ClosedAndFreed ==
    /\ last.op = "close" /\ last.held /\ last.freed /= {} /\ last.exc = NoExc
    /\ ep[last.e].sock = "closed"

\* C7: a closed socket records no address, and a bind on it fails and takes
\* no port from the pool.
C7_ClosedIsTerminal ==
    \A e \in Sockets :
      ep[e].sock = "closed" =>
        /\ ep[e].epid = NoneInt
        /\ (last.op = "bind" /\ last.e = e) =>
             (last.exc /= NoExc /\ last.allocs = {})

\* C8: the identity a bound socket records is the address the underlying
\* socket is bound to.
C8_RecordedIdentityIsBoundAddress ==
    \A e \in Sockets :
      ep[e].sock = "bound" =>
        /\ ep[e].epid = ep[e].kaddr
        /\ Epid(ep[e].pid, ep[e].port) = ep[e].kaddr

\* C16: a bind with a fixed identity never enters the scan, takes no port
\* from the pool and hands none back, records the address pid + (port << 22),
\* leaves the pool as it was, and raises errno 98 at once when the address is
\* in use.
C16_FixedBindLeavesPool ==
    /\ []((last.op = "bind" /\ last.fixed) =>
            /\ last.iterations = 0
            /\ last.allocs = {} /\ last.rejected = {} /\ last.freed = {}
            /\ ep[last.e].fixed
            /\ ep[last.e].epid = Epid(ep[last.e].pid, ep[last.e].port))
    /\ [][(last'.op = "bind" /\ last'.fixed) =>
            /\ pool' = pool
            /\ (ep[last'.e].sock = "unbound" /\ ep'[last'.e].epid \in InUse(last'.e)) =>
                 last'.exc = SocketError(EADDRINUSE)]_vars

C16_FixedBindRefused ==
    /\ last.op = "bind" /\ last.fixed
    /\ last.exc = SocketError(EADDRINUSE)
    /\ pool /= {}

\* C17: when every socket has been closed, every port of the pool is free.
C17_AllClosedPoolEmpty ==
    (\A e \in Sockets : ep[e].sock = "closed") => pool = {}

(***************************************************************************)
(* Claims about the decode policy, checked under SpecPolicy.                *)
(***************************************************************************)
\* the outcome of the parse call a step has just made for identity s
Latest(s) == returned'[s][Len(returned'[s])]

\* C11: a parse of well-formed messages returns, for every message, the
\* object of the decoder class registered for its type when the parse is
\* made, and for a type with no entry an nlmsg carrying no decode error.
C11_DecoderOfThePolicy ==
    [][\A s \in Ids :
         (returned'[s] /= returned[s] /\ whole[s] \in WellFormedStreams) =>
           /\ Latest(s).status = "return"
           /\ Latest(s).result /= <<>>
           /\ \A j \in 1..Len(Latest(s).result) :
                IF Latest(s).result[j].type \in DOMAIN msg_map
                THEN Latest(s).result[j].cls = msg_map[Latest(s).result[j].type]
                ELSE /\ Latest(s).result[j].cls = "nlmsg"
                     /\ Latest(s).result[j].error.kind \in {"None", "NetlinkError"}]_vars

C11_ParsedUnderRegisteredPolicy ==
    /\ pcall.op = "register"
    /\ Len(returned["s1"]) = 1
    /\ \E j \in 1..Len(returned["s1"][1].result) :
         /\ returned["s1"][1].result[j].type = RTM_NEWLINK
         /\ returned["s1"][1].result[j].cls = "ifaddrmsg"
    /\ \E j \in 1..Len(returned["s1"][1].result) :
         /\ returned["s1"][1].result[j].type = RTM_NEWADDR
         /\ returned["s1"][1].result[j].cls = "nlmsg"

\* C12: register_policy merges: after it returns every key of the policy
\* given maps to the decoder given, every other key of the map keeps its
\* decoder, no key is gone, and the value returned is the resulting map.
C12_RegisterMerges ==
    (pcall.op = "register" /\ pcall.exc = PolicyReturned) =>
      /\ DOMAIN msg_map = DOMAIN pcall.before \cup DOMAIN pcall.given
      /\ \A k \in DOMAIN pcall.given : msg_map[k] = pcall.given[k]
      /\ \A k \in DOMAIN pcall.before \ DOMAIN pcall.given : msg_map[k] = pcall.before[k]
      /\ pcall.ret = msg_map

C12_RegisteredOverOldPolicy ==
    /\ pcall.op = "register" /\ pcall.exc = PolicyReturned
    /\ DOMAIN pcall.before \ DOMAIN pcall.given /= {}
    /\ \E k \in DOMAIN pcall.before \cap DOMAIN pcall.given :
         pcall.before[k] /= pcall.given[k]

\* the message types a request names
Requested == { pcall.keys[i] : i \in 1..Len(pcall.keys) }

\* C13: unregister_policy(types) and get_policy_map(types) raise the
\* unknown-policy error (KeyError) when a requested key is not in the map;
\* when all are, unregister_policy removes exactly those keys and
\* get_policy_map returns exactly their sub-map and leaves the map alone.
C13_UnknownPolicyOrExactEffect ==
    (pcall.op \in {"unregister", "get"}) =>
      IF Requested \ DOMAIN pcall.before /= {}
      THEN pcall.exc = KeyError
      ELSE /\ pcall.exc = PolicyReturned
           /\ pcall.op = "unregister" =>
                /\ DOMAIN msg_map = DOMAIN pcall.before \ Requested
                /\ \A k \in DOMAIN msg_map : msg_map[k] = pcall.before[k]
           /\ pcall.op = "get" =>
                /\ msg_map = pcall.before
                /\ DOMAIN pcall.ret = Requested
                /\ \A k \in Requested : pcall.ret[k] = pcall.before[k]

\* C20: an unregister_policy that raises leaves the map as it was.
C20_FailedUnregisterChangesNothing ==
    (pcall.op = "unregister" /\ pcall.exc /= PolicyReturned) => msg_map = pcall.before

(***************************************************************************)
(* Claims about threads, checked under SpecThreads.                         *)
(***************************************************************************)
\* thread t is inside the with block of Marshal.parse
InParse(t) == thr.pc[t] \in {"enter", "scan", "leave", "spin"}

\* C14: at most one parse is in flight: a thread is inside parse only while
\* it holds the lock, the lock is held only by a thread inside parse (so it
\* is released on every exit, an exception included), and every step that
\* reads or writes the defragmentation map or hands back a result is made by
\* the holder while every other thread stays outside parse.
C14_OneParseInFlight ==
    /\ [](/\ Cardinality({ t \in Threads : InParse(t) }) <= 1
          /\ \A t \in Threads : InParse(t) => thr.lock = t
          /\ thr.lock /= 0 => InParse(thr.lock))
    /\ [][(defragmentation' /= defragmentation \/ returned' /= returned
           \/ thr'.parsed /= thr.parsed) =>
            /\ thr.lock /= 0
            /\ \A t \in Threads \ {thr.lock} :
                 ~InParse(t) /\ thr'.pc[t] = thr.pc[t]]_vars

C14_LockTakenAfterException ==
    /\ \E j \in 1..Len(returned["s1"]) : returned["s1"][j].status = "struct.error"
    /\ thr.lock /= 0
    /\ thr.pc[thr.lock] = "scan"

\* C18: the datagrams are handed to Marshal.parse in the order recv
\* returned them, whatever the interleaving of the threads.
C18_ParsedInReceiveOrder ==
    \A i \in 1..Len(thr.parsed) : thr.parsed[i] = thr.taken[i]

=============================================================================
